---- MODULE Spec2Model ----
(***************************************************************************)
(* MUS2MIDI (src/src/mus.c): translation of a DMX MUS score into a        *)
(* single-track MIDI file.  The module models the byte sink of struct     *)
(* mus_ctx, WriteVarLen and the body of mus2midi, one action per pass of  *)
(* the main loop and per MUS event type.                                   *)
(***************************************************************************)
EXTENDS Integers, Sequences, FiniteSets, TLC

\* ------------------------------------------------------------ bounds
MaxScoreLen == 3        \* exhaustive family: scores of up to this many bytes
WalkLen     == 16       \* channel-walk family: events per score
LongLen     == 1790     \* long family: events per score (reaches resize_dst)

\* --------------------------------------------------- program constants
DST_CHUNK                 == 8192
MUSEVENT_KEYOFF           == 0
MUSEVENT_KEYON            == 1
MUSEVENT_PITCHWHEEL       == 2
MUSEVENT_CHANNELMODE      == 3
MUSEVENT_CONTROLLERCHANGE == 4
MUSEVENT_END              == 6
MIDI_MAXCHANNELS          == 16
SizeofMUSheader           == 16     \* sizeof(MUSheader): char[4] + 6 * uint16_t
SizeofMidiTrackChunk      == 8      \* sizeof(MidiTrackChunk): char[4] + int32_t
SizeofTempBuffer          == 32     \* sizeof(temp_buffer)

midimap == <<0, 0, 1, 7, 10, 11, 91, 93, 64, 67, 120, 123, 126, 127, 121>>

\* TEMPO 0x001aa309 as written by lines 250-252: low byte first
TempoBytes == <<9, 163, 26>>

\* ------------------------------------------------------- bit helpers
RECURSIVE BitAnd(_, _)
BitAnd(a, b) ==
    IF a = 0 \/ b = 0 THEN 0
    ELSE (IF a % 2 = 1 /\ b % 2 = 1 THEN 1 ELSE 0) + 2 * BitAnd(a \div 2, b \div 2)

RECURSIVE BitOr(_, _)
BitOr(a, b) ==
    IF a = 0 THEN b
    ELSE IF b = 0 THEN a
    ELSE (IF a % 2 = 1 \/ b % 2 = 1 THEN 1 ELSE 0) + 2 * BitOr(a \div 2, b \div 2)

\* conversion of a wider value to uint8_t
U8(v) == v % 256

\* acc * 128 + b computed in int on a two's-complement build: the low 24 bits
\* of acc move up by 7 and bit 24 of acc becomes the sign
Shift7Add(acc, b) ==
    LET v == (acc % 16777216) * 128 + b
    IN  IF (acc \div 16777216) % 2 = 1 THEN (v - 2147483647) - 1 ELSE v

\* a uint32_t value as its two 16-bit halves <<high, low>>
U32Of(n) == <<n \div 65536, n % 65536>>

\* a - b in uint32_t, for a and b below 2^31
U32Sub(a, b) ==
    IF a >= b THEN U32Of(a - b)
    ELSE <<65535 - ((b - a - 1) \div 65536), 65535 - ((b - a - 1) % 65536)>>

VARIABLES
    src,            \* the caller's buffer `data` (header followed by score)
    pc,             \* "start", "loop", "done" (ctx returned), "null" (NULL returned)
    header,         \* MUSheader as memcpy'd from src
    cur,            \* score cursor, as an offset into src
    end,            \* data + scoreStart + scoreLen
    delta_time,
    channel_volume, \* indexed 0..15
    channelMap,     \* indexed 0..15
    currentChannel,
    ctx,            \* struct mus_ctx: dst, dst_ptr, dstsize, dstrem (+ allocation size)
    begin_track_pos,
    track_size_pos,
    event,          \* the event byte of the last loop pass, -1 before the first
    temp_buffer,    \* scratch area of the last loop pass
    log,            \* number of "Not good." lines printed: [ctl, eos]
    call,           \* which call of mus2midi on this buffer is running
    prev            \* what the previous call on this buffer returned

vars == <<src, pc, header, cur, end, delta_time, channel_volume, channelMap,
          currentChannel, ctx, begin_track_pos, track_size_pos, event,
          temp_buffer, log, call, prev>>

\* ----------------------------------------------------------- byte sink
\* dstsize and dstrem are uint32_t; within the bounds of this module they stay
\* far below 2^31, so their arithmetic is written without the reduction.
\* Store one byte at offset pos of dst; memory from calloc reads 0 until written.
RECURSIVE Pad(_, _)
Pad(s, n) == IF Len(s) >= n THEN s ELSE Pad(Append(s, 0), n)

Put(d, pos, b) ==
    IF pos < Len(d) THEN [d EXCEPT ![pos + 1] = b]
    ELSE Append(Pad(d, pos), b)

RECURSIVE PutSeq(_, _, _)
PutSeq(d, pos, bs) ==
    IF bs = <<>> THEN d ELSE PutSeq(Put(d, pos, Head(bs)), pos + 1, Tail(bs))

NewCtx ==
    [dst |-> <<>>, dst_ptr |-> 0, dstsize |-> DST_CHUNK, dstrem |-> DST_CHUNK,
     cap |-> DST_CHUNK]

resize_dst(c) ==
    [c EXCEPT !.cap     = c.dstsize + DST_CHUNK,
              !.dstsize = c.dstsize + DST_CHUNK,
              !.dstrem  = c.dstrem + DST_CHUNK]

write1(c, val) ==
    LET c1 == IF c.dstrem < 1 THEN resize_dst(c) ELSE c
    IN  [c1 EXCEPT !.dst     = Put(c1.dst, c1.dst_ptr, val % 256),
                   !.dst_ptr = c1.dst_ptr + 1,
                   !.dstrem  = c1.dstrem - 1]

\* C4 mutant: the two bytes stored low byte first
write2_LittleEndian(c, val) ==
    LET c1 == IF c.dstrem < 2 THEN resize_dst(c) ELSE c
    IN  [c1 EXCEPT !.dst     = PutSeq(c1.dst, c1.dst_ptr,
                                      <<val % 256, (val \div 256) % 256>>),
                   !.dst_ptr = c1.dst_ptr + 2,
                   !.dstrem  = c1.dstrem - 2]

write2(c, val) ==
    LET c1 == IF c.dstrem < 2 THEN resize_dst(c) ELSE c
    IN  [c1 EXCEPT !.dst     = PutSeq(c1.dst, c1.dst_ptr,
                                      <<(val \div 256) % 256, val % 256>>),
                   !.dst_ptr = c1.dst_ptr + 2,
                   !.dstrem  = c1.dstrem - 2]

write4(c, val) ==
    LET c1 == IF c.dstrem < 4 THEN resize_dst(c) ELSE c
    IN  [c1 EXCEPT !.dst     = PutSeq(c1.dst, c1.dst_ptr,
                                      <<(val \div 16777216) % 256, (val \div 65536) % 256,
                                        (val \div 256) % 256, val % 256>>),
                   !.dst_ptr = c1.dst_ptr + 4,
                   !.dstrem  = c1.dstrem - 4]

RECURSIVE GrowTo(_, _)
GrowTo(c, pos) == IF c.dstsize < pos THEN GrowTo(resize_dst(c), pos) ELSE c

seekdst(c, pos) ==
    LET c1 == GrowTo([c EXCEPT !.dst_ptr = pos], pos)
    IN  [c1 EXCEPT !.dstrem = c1.dstsize - pos]

skipdst(c, n) ==
    LET newpos == c.dst_ptr + n
        c1 == GrowTo([c EXCEPT !.dst_ptr = newpos, !.dst = Pad(c.dst, newpos)], newpos)
    IN  [c1 EXCEPT !.dstrem = c1.dstsize - newpos]

getdstpos(c) == c.dst_ptr

mus_getmididata(c) == c.dst

\* a uint32_t, as <<high, low>>
mus_getmidisize(c) == U32Sub(c.dstsize, c.dstrem)

\* a run of byte writes, in order
RECURSIVE write1s(_, _)
write1s(c, bs) == IF bs = <<>> THEN c ELSE write1s(write1(c, Head(bs)), Tail(bs))

\* ------------------------------------------------------- WriteVarLen
\* `buffer` is a long; it is held here as its bytes, lowest first (the five
\* groups of an int value fit the eight bytes of a 64-bit long)
\* first loop: pack 7-bit groups into `buffer`, least significant group last
\* C16 mutant: the continuation bit not set on the higher groups
RECURSIVE VarLenPack_NoContinuation(_, _)
VarLenPack_NoContinuation(value, buffer) ==
    LET v == value \div 128
    IN  IF v > 0 THEN VarLenPack_NoContinuation(v, <<v % 128>> \o buffer) ELSE buffer

RECURSIVE VarLenPack(_, _)
VarLenPack(value, buffer) ==
    LET v == value \div 128           \* value >>= 7
    IN  IF v > 0 THEN VarLenPack(v, <<128 + (v % 128)>> \o buffer) ELSE buffer

\* second loop: emit the low byte of `buffer` while its bit 7 is set
RECURSIVE VarLenEmit(_)
VarLenEmit(buffer) ==
    IF Head(buffer) >= 128
    THEN <<Head(buffer)>> \o VarLenEmit(Tail(buffer))
    ELSE <<Head(buffer)>>

\* second loop: ++count once per byte emitted
RECURSIVE VarLenCount(_)
VarLenCount(buffer) ==
    IF Head(buffer) >= 128 THEN 1 + VarLenCount(Tail(buffer)) ELSE 1

\* the bytes written to out
WriteVarLen(value) == VarLenEmit(VarLenPack(value, <<value % 128>>))

\* the count returned
WriteVarLenCount(value) == VarLenCount(VarLenPack(value, <<value % 128>>))


\* ------------------------------------------------------------ inputs
LE16(v) == <<v % 256, (v \div 256) % 256>>

\* a MUS file: "MUS" 0x1A, scoreLen, scoreStart, channels, sec_channels,
\* instrCnt, dummy, then the score
MusFile(score, scoreLen, channels) ==
    <<77, 85, 83, 26>> \o LE16(scoreLen) \o LE16(SizeofMUSheader) \o LE16(channels)
        \o LE16(0) \o LE16(0) \o LE16(0) \o score

\* values an indeterminate read can produce (uninitialized local, read past
\* the end of src or of midimap); memory further out is taken to read 0
Indeterminate == {0, 140}

\* exhaustive family: every score over Alphabet up to MaxScoreLen bytes, with
\* scoreLen covering the whole score or stopping one byte short of it
Alphabet == {0, 12, 16, 63, 65, 80, 96, 144}

ShortInputs ==
    { MusFile(s, n, 2) :
        <<s, n>> \in { <<s, n>> \in (UNION { [1..k -> Alphabet] : k \in 0..MaxScoreLen })
                                     \X (0..MaxScoreLen) :
                         n \in {Len(s), Len(s) - 1} } }

\* header family: channel counts around the limit of 15
HeaderInputs ==
    { MusFile(<<16, 188, 100, 96>>, 4, ch) : ch \in {0, 1, 15, 16, 17, 255, 256, 65535} }

\* channel-walk family: WalkLen events whose types cycle through the seven
\* words below and whose channels step by a fixed stride
DelayBytes(d) == IF d = 0 THEN <<>> ELSE IF d = 1 THEN <<5>> ELSE <<129, 0>>

EventWord(k, c, d) ==
    LET hi == IF d = 0 THEN 0 ELSE 128
        w  == CASE k = 0 -> <<hi + c, 60>>                    \* KeyOff
                [] k = 1 -> <<hi + 16 + c, 188, 100 + c>>     \* KeyOn with volume
                [] k = 2 -> <<hi + 32 + c, 129>>              \* PitchWheel
                [] k = 3 -> <<hi + 48 + c, 12, 7>>            \* ChannelMode
                [] k = 4 -> <<hi + 16 + c, 62>>               \* KeyOn, cached volume
                [] k = 5 -> IF c % 2 = 0 THEN <<hi + 64 + c, 3, 90>>   \* controller
                                         ELSE <<hi + 64 + c, 0, 5>>    \* program change
                [] OTHER -> <<hi + 96 + c>>                   \* End
    IN  w \o DelayBytes(d)

RECURSIVE Walk(_, _, _, _, _)
Walk(i, t0, c0, stride, d) ==
    IF i >= WalkLen THEN <<>>
    ELSE EventWord((t0 + i) % 7, (c0 + i * stride) % 16, d)
             \o Walk(i + 1, t0, c0, stride, d)

WalkInputs ==
    { MusFile(w, Len(w), 3) :
        w \in { Walk(0, t0, c0, stride, d) :
                  t0 \in 0..6, c0 \in {0, 5, 15}, stride \in {0, 1, 7, 8, 15},
                  d \in 0..2 } }

\* long family: enough End events for the output to approach the first chunk's end
LongInputs == { MusFile([i \in 1..LongLen |-> 96], LongLen, 1) }

\* delay family: a KeyOff followed by a long MUS delay, then KeyOff and End
LongDelays ==
    { <<255, 255, 255, 127>>,            \* 2^28 - 1
      <<128, 129, 0>>,                   \* 128 with a leading zero group
      <<136, 128, 128, 128, 0>>,         \* 2^31
      <<129, 128, 128, 128, 128, 0>> }   \* 2^35

DelayInputs ==
    { MusFile(<<128, 60>> \o dl \o <<0, 62, 96>>, Len(dl) + 5, 1) : dl \in LongDelays }

Inputs == ShortInputs \cup HeaderInputs \cup WalkInputs \cup LongInputs \cup DelayInputs

\* ------------------------------------------------------------- state
Init ==
    /\ src \in Inputs
    /\ pc = "start"
    /\ header = [scoreLen |-> 0, scoreStart |-> 0, channels |-> 0]
    /\ cur = 0
    /\ end = 0
    /\ delta_time = 0
    /\ channel_volume = [i \in 0..15 |-> 0]
    /\ channelMap = [i \in 0..15 |-> 0]
    /\ currentChannel = 0
    /\ ctx = NewCtx
    /\ begin_track_pos = 0
    /\ track_size_pos = 0
    /\ event = -1
    /\ temp_buffer = <<>>
    /\ log = [ctl |-> 0, eos |-> 0]
    /\ call = 1
    /\ prev = [data |-> <<>>, size |-> U32Of(0)]

\* memcpy(&header, ctx->src_ptr, sizeof(header)) on a little-endian host
ReadHeader(s) ==
    [scoreLen   |-> s[5] + 256 * s[6],
     scoreStart |-> s[7] + 256 * s[8],
     channels   |-> s[9] + 256 * s[10]]

\* C3 mutant: the limit taken one too high
TooManyChannels_OffByOne(h) == h.channels > MIDI_MAXCHANNELS

TooManyChannels(h) == h.channels > MIDI_MAXCHANNELS - 1

\* lines 227-258: file header, track header, tempo and percussion volume
WritePreamble(c) ==
    LET c1 == write1s(c, <<77, 84, 104, 100>>)      \* "MThd"
        c2 == write4(c1, 6)
        c3 == write2(c2, 0)
        c4 == write2(c3, 1)
        c5 == write2(c4, 89)                        \* 0x0059
        c6 == write1s(c5, <<77, 84, 114, 107>>)     \* "MTrk"
        c7 == skipdst(c6, 4)
        c8 == write1s(c7, <<0, 255>>)
        c9 == write2(c8, 20739)                     \* 0x5103
        c10 == write1s(c9, TempoBytes)
    IN  write1s(c10, <<0, 185, 7, 127>>)

Start ==
    /\ pc = "start"
    /\ LET h == ReadHeader(src)
       IN  /\ header' = h
           /\ IF TooManyChannels(h)
              THEN /\ pc' = "null"
                   /\ ctx' = NewCtx
                   /\ UNCHANGED <<cur, end, channel_volume, channelMap,
                                  begin_track_pos, track_size_pos>>
              ELSE /\ pc' = "loop"
                   /\ channelMap' = [i \in 0..15 |-> IF i = 15 THEN 9 ELSE -1]
                   /\ channel_volume' = [i \in 0..15 |-> 64]
                   /\ ctx' = WritePreamble(NewCtx)
                   /\ begin_track_pos' = 14
                   /\ track_size_pos' = 18
                   /\ cur' = h.scoreStart
                   /\ end' = h.scoreStart + h.scoreLen
    /\ UNCHANGED <<src, delta_time, currentChannel, event, temp_buffer, log, call, prev>>


\* -------------------------------------------------------- main loop
\* *p for p = data + i; t holds what the bytes just past the buffer read as
Byte(t, i) ==
    IF i < Len(src) THEN src[i + 1]
    ELSE IF i - Len(src) < Len(t) THEN t[i - Len(src) + 1]
    ELSE 0

\* whether a loop pass starting at offset c can read past the end of src:
\* it reads at most the event byte and two operands, then delay bytes up to
\* the first one with bit 7 clear
CanOverread(c) == ~ \E q \in (c + 3)..(Len(src) - 1) : src[q + 1] < 128

Tails(c) == IF CanOverread(c) THEN [1..3 -> Indeterminate] ELSE {<<>>}

\* (event & 122) >> 4
EventType(ev) == BitAnd(ev, 122) \div 16

\* C6 mutant: a channel mapped to MIDI channel 0 taken for unassigned
Unassigned_ZeroToo(m) == m <= 0

\* channelMap[channel] < 0
Unassigned(m) == m < 0

\* C14 mutant: the test for 9 made before the increment
NextChannel_TestBeforeIncrement(c) == IF c = 9 THEN c + 2 ELSE c + 1

\* C5 mutant: the percussion channel not skipped
NextChannel_NoSkip(c) == c + 1

\* currentChannel++; if (currentChannel == 9) ++currentChannel;
NextChannel(c) == IF c + 1 = 9 THEN c + 2 ELSE c + 1

\* C13 mutant: the zero delta time after the volume-init event left out
VolumeInit_NoDelta(c) == <<U8(176 + c), 7, 127>>

\* the bytes of the synthetic full-volume event, lines 282-285
VolumeInit(c) == <<U8(176 + c), 7, 127, 0>>

\* lines 281-289 for MUS channel ch
Allocation(ch) ==
    IF Unassigned(channelMap[ch])
    THEN [map |-> [channelMap EXCEPT ![ch] = currentChannel],
          cc  |-> NextChannel(currentChannel),
          out |-> VolumeInit(currentChannel)]
    ELSE [map |-> channelMap, cc |-> currentChannel, out |-> <<>>]

\* midimap[i]; an index past the table is an indeterminate read yielding g
MidimapAt(i, g) == IF i < Len(midimap) THEN midimap[i + 1] ELSE g

MidimapReads(i) == IF i < Len(midimap) THEN {0} ELSE Indeterminate

\* the MUS delay after an event, lines 371-373; returns the delay and the cursor
RECURSIVE ReadDelay(_, _, _)
ReadDelay(t, c, acc) ==
    LET b == Byte(t, c)
        a == Shift7Add(acc, BitAnd(b, 127))
    IN  IF BitAnd(b, 128) # 0 THEN ReadDelay(t, c + 1, a)
        ELSE [delta |-> a, cur |-> c + 1]

\* lines 357-366: copy of the scratch area into dst
CopyOut(c, tb) ==
    LET c1 == IF c.dstrem < SizeofTempBuffer * 32 THEN resize_dst(c) ELSE c
        n  == Len(tb)
    IN  [c1 EXCEPT !.dst     = PutSeq(c1.dst, c1.dst_ptr, tb),
                   !.dst_ptr = c1.dst_ptr + n,
                   !.dstsize = c1.dstsize + n,
                   !.dstrem  = c1.dstrem - n]

\* what lines 351-354 put after the delta time and the volume-init bytes
Emitted(r) == <<r.status, r.bit1>> \o (IF r.bitc = 2 THEN <<r.bit2>> ELSE <<>>)

\* one pass of the loop for event byte ev, given the allocation a made for its
\* channel and the outcome r of the switch
Pass(t, ev, a, r) ==
    LET tb == WriteVarLen(delta_time) \o a.out \o Emitted(r)
        d  == IF BitAnd(ev, 128) # 0 THEN ReadDelay(t, r.cur, 0)
              ELSE [delta |-> 0, cur |-> r.cur]
    IN  /\ event' = ev
        /\ temp_buffer' = tb
        /\ ctx' = CopyOut(ctx, tb)
        /\ channelMap' = a.map
        /\ currentChannel' = a.cc
        /\ channel_volume' = r.vol
        /\ log' = r.log
        /\ delta_time' = d.delta
        /\ cur' = d.cur
        /\ UNCHANGED <<src, pc, header, end, begin_track_pos, track_size_pos, call, prev>>

KeyOff ==
    /\ pc = "loop" /\ cur < end
    /\ \E t \in Tails(cur) :
         LET ev == Byte(t, cur)
             a  == Allocation(BitAnd(ev, 15))
         IN  /\ EventType(ev) = MUSEVENT_KEYOFF
             /\ Pass(t, ev, a,
                     [status |-> BitOr(U8(a.map[BitAnd(ev, 15)]), 128),
                      bit1 |-> Byte(t, cur + 1), bit2 |-> 64, bitc |-> 2,
                      cur |-> cur + 2, vol |-> channel_volume, log |-> log])

\* C7 mutant: a KeyOn without a volume byte falls back to the default volume
KeyOnVolume_DefaultVolume(t, m) ==
    IF BitAnd(Byte(t, cur + 1), 128) # 0
    THEN [vol |-> [channel_volume EXCEPT ![m] = Byte(t, cur + 2)], cur |-> cur + 3]
    ELSE [vol |-> [channel_volume EXCEPT ![m] = 64], cur |-> cur + 2]

\* lines 304-307
KeyOnVolume(t, m) ==
    IF BitAnd(Byte(t, cur + 1), 128) # 0
    THEN [vol |-> [channel_volume EXCEPT ![m] = Byte(t, cur + 2)], cur |-> cur + 3]
    ELSE [vol |-> channel_volume, cur |-> cur + 2]

KeyOn ==
    /\ pc = "loop" /\ cur < end
    /\ \E t \in Tails(cur) :
         LET ev == Byte(t, cur)
             a  == Allocation(BitAnd(ev, 15))
             m  == a.map[BitAnd(ev, 15)]
             k  == KeyOnVolume(t, m)
         IN  /\ EventType(ev) = MUSEVENT_KEYON
             /\ Pass(t, ev, a,
                     [status |-> BitOr(U8(m), 144),
                      bit1 |-> BitAnd(Byte(t, cur + 1), 127),
                      bit2 |-> U8(k.vol[m]), bitc |-> 2,
                      cur |-> k.cur, vol |-> k.vol, log |-> log])

PitchWheel ==
    /\ pc = "loop" /\ cur < end
    /\ \E t \in Tails(cur) :
         LET ev == Byte(t, cur)
             a  == Allocation(BitAnd(ev, 15))
         IN  /\ EventType(ev) = MUSEVENT_PITCHWHEEL
             /\ Pass(t, ev, a,
                     [status |-> BitOr(U8(a.map[BitAnd(ev, 15)]), 224),
                      bit1 |-> BitAnd(Byte(t, cur + 1), 1) \div 64,
                      bit2 |-> BitAnd(Byte(t, cur + 1) \div 2, 127), bitc |-> 2,
                      cur |-> cur + 2, vol |-> channel_volume, log |-> log])

\* the range check of lines 316 and 329
CtlLog(i) == IF ~(i < Len(midimap)) THEN [log EXCEPT !.ctl = @ + 1] ELSE log

ChannelMode ==
    /\ pc = "loop" /\ cur < end
    /\ \E t \in Tails(cur) :
         LET ev == Byte(t, cur)
             a  == Allocation(BitAnd(ev, 15))
         IN  /\ EventType(ev) = MUSEVENT_CHANNELMODE
             /\ \E g \in MidimapReads(Byte(t, cur + 1)) :
                  Pass(t, ev, a,
                       [status |-> BitOr(U8(a.map[BitAnd(ev, 15)]), 176),
                        bit1 |-> MidimapAt(Byte(t, cur + 1), g),
                        bit2 |-> IF Byte(t, cur + 2) = 12 THEN U8(header.channels + 1)
                                 ELSE 0,
                        bitc |-> 2, cur |-> cur + 3, vol |-> channel_volume,
                        log |-> CtlLog(Byte(t, cur + 1))])

ControllerChange ==
    /\ pc = "loop" /\ cur < end
    /\ \E t \in Tails(cur) :
         LET ev == Byte(t, cur)
             a  == Allocation(BitAnd(ev, 15))
             m  == U8(a.map[BitAnd(ev, 15)])
         IN  /\ EventType(ev) = MUSEVENT_CONTROLLERCHANGE
             /\ IF Byte(t, cur + 1) = 0
                THEN \* bit2 stays unset and is not written
                     Pass(t, ev, a,
                          [status |-> BitOr(m, 192), bit1 |-> Byte(t, cur + 2),
                           bit2 |-> 0, bitc |-> 1, cur |-> cur + 3,
                           vol |-> channel_volume, log |-> log])
                ELSE \E g \in MidimapReads(Byte(t, cur + 1)) :
                       Pass(t, ev, a,
                            [status |-> BitOr(m, 176),
                             bit1 |-> MidimapAt(Byte(t, cur + 1), g),
                             bit2 |-> Byte(t, cur + 2), bitc |-> 2, cur |-> cur + 3,
                             vol |-> channel_volume, log |-> CtlLog(Byte(t, cur + 1))])

EndOfScore ==
    /\ pc = "loop" /\ cur < end
    /\ \E t \in Tails(cur) :
         LET ev == Byte(t, cur)
             a  == Allocation(BitAnd(ev, 15))
         IN  /\ EventType(ev) = MUSEVENT_END
             /\ Pass(t, ev, a,
                     [status |-> 255, bit1 |-> 47, bit2 |-> 0, bitc |-> 2,
                      cur |-> cur + 1, vol |-> channel_volume,
                      log |-> IF ~(cur + 1 = end) THEN [log EXCEPT !.eos = @ + 1]
                              ELSE log])

\* case 5, case 7 and default: bit1 and bit2 are written without having been set
UnknownEvent ==
    /\ pc = "loop" /\ cur < end
    /\ \E t \in Tails(cur) :
         LET ev == Byte(t, cur)
             a  == Allocation(BitAnd(ev, 15))
         IN  /\ EventType(ev) \notin {MUSEVENT_KEYOFF, MUSEVENT_KEYON, MUSEVENT_PITCHWHEEL,
                                      MUSEVENT_CHANNELMODE, MUSEVENT_CONTROLLERCHANGE,
                                      MUSEVENT_END}
             /\ \E u1 \in Indeterminate, u2 \in Indeterminate :
                  Pass(t, ev, a,
                       [status |-> U8(a.map[BitAnd(ev, 15)]), bit1 |-> u1, bit2 |-> u2,
                        bitc |-> 2, cur |-> cur + 1, vol |-> channel_volume,
                        log |-> log])

\* C2 mutant: the track chunk's own 8 bytes counted into its length
TrackLength_WithChunkHeader(current_pos, begin) == current_pos - begin

\* current_pos - begin_track_pos - sizeof(MidiTrackChunk)
TrackLength(current_pos, begin) == current_pos - begin - SizeofMidiTrackChunk

\* lines 381-388
Finalize(c, size_pos, begin) ==
    LET current_pos == getdstpos(c)
        c1 == seekdst(c, size_pos)
        c2 == write4(c1, TrackLength(current_pos, begin))
        c3 == seekdst(c2, current_pos)
    IN  [c3 EXCEPT !.dstsize = c3.dst_ptr]

Finish ==
    /\ pc = "loop" /\ ~(cur < end)
    /\ ctx' = Finalize(ctx, track_size_pos, begin_track_pos)
    /\ pc' = "done"
    /\ UNCHANGED <<src, header, cur, end, delta_time, channel_volume, channelMap,
                   currentChannel, begin_track_pos, track_size_pos, event,
                   temp_buffer, log, call, prev>>

\* the caller keeps what the first call returned and calls mus2midi on the
\* same buffer again; every local and the context start afresh
Again ==
    /\ pc = "done" /\ call = 1
    /\ prev' = [data |-> SubSeq(mus_getmididata(ctx), 1, ctx.dstsize),
                size |-> mus_getmidisize(ctx)]
    /\ call' = 2
    /\ pc' = "start"
    /\ header' = [scoreLen |-> 0, scoreStart |-> 0, channels |-> 0]
    /\ cur' = 0
    /\ end' = 0
    /\ delta_time' = 0
    /\ channel_volume' = [i \in 0..15 |-> 0]
    /\ channelMap' = [i \in 0..15 |-> 0]
    /\ currentChannel' = 0
    /\ ctx' = NewCtx
    /\ begin_track_pos' = 0
    /\ track_size_pos' = 0
    /\ event' = -1
    /\ temp_buffer' = <<>>
    /\ log' = [ctl |-> 0, eos |-> 0]
    /\ UNCHANGED src

Next ==
    \/ Start
    \/ KeyOff
    \/ KeyOn
    \/ PitchWheel
    \/ ChannelMode
    \/ ControllerChange
    \/ EndOfScore
    \/ UnknownEvent
    \/ Finish

Spec == Init /\ [][Next]_vars

NextTwice == Next \/ Again

SpecTwice == Init /\ [][NextTwice]_vars

\* WriteVarLen on its own: a caller passes one value and receives the bytes
\* in temp_buffer; delta_time holds the argument
VarLenSamples == {0, 1, 64, 127}

VarLenValues ==
    { ((a * 128 + b) * 128 + c) * 128 + d :
        a \in VarLenSamples, b \in VarLenSamples,
        c \in VarLenSamples \cup {2}, d \in VarLenSamples \cup {126} }

InitVarLen ==
    /\ src = MusFile(<<>>, 0, 0)
    /\ pc = "varlen"
    /\ header = [scoreLen |-> 0, scoreStart |-> 0, channels |-> 0]
    /\ cur = 0
    /\ end = 0
    /\ delta_time \in VarLenValues
    /\ channel_volume = [i \in 0..15 |-> 0]
    /\ channelMap = [i \in 0..15 |-> 0]
    /\ currentChannel = 0
    /\ ctx = NewCtx
    /\ begin_track_pos = 0
    /\ track_size_pos = 0
    /\ event = -1
    /\ temp_buffer = <<>>
    /\ log = [ctl |-> 0, eos |-> 0]
    /\ call = 1
    /\ prev = [data |-> <<>>, size |-> U32Of(0)]

\* out_local += WriteVarLen(value, out_local)
CallWriteVarLen ==
    /\ pc = "varlen"
    /\ temp_buffer' = WriteVarLen(delta_time)
    /\ cur' = WriteVarLenCount(delta_time)
    /\ pc' = "varlen_done"
    /\ UNCHANGED <<src, header, end, delta_time, channel_volume, channelMap,
                   currentChannel, ctx, begin_track_pos, track_size_pos, event,
                   log, call, prev>>

SpecVarLen == InitVarLen /\ [][CallWriteVarLen]_vars


\* ============================================================ claims
\* the channel count the header bytes of src declare
DeclaredChannels == src[9] + 256 * src[10]

\* a pass of the main loop has just run
PassStep == pc = "loop" /\ pc' = "loop" /\ cur' # cur

\* C1: after a successful mus2midi call the length mus_getmidisize reports
\* equals the write-cursor position at the moment translation completed.
C1_SizeIsCursor ==
    pc = "done" => mus_getmidisize(ctx) = U32Of(ctx.dst_ptr)

\* C2: when the loop has ended, the four bytes at output offsets 18..21 become
\* the big-endian value finalLength - 22, no other output byte changes and the
\* cursor is back at finalLength.
C2_TrackLengthPatched ==
    [][(pc = "loop" /\ pc' = "done") =>
         LET n == ctx.dst_ptr - 22
         IN  /\ ctx'.dst_ptr = ctx.dst_ptr
             /\ Len(ctx'.dst) = Len(ctx.dst)
             /\ \A i \in 1..Len(ctx.dst) : i \notin 19..22 => ctx'.dst[i] = ctx.dst[i]
             /\ SubSeq(ctx'.dst, 19, 22) =
                  <<(n \div 16777216) % 256, (n \div 65536) % 256,
                    (n \div 256) % 256, n % 256>>]_vars

\* a finished translation whose track length needs more than one byte
C2_Witness ==
    pc = "done" /\ ctx.dst_ptr - 22 > 255 /\ ctx.dst[21] # 0

\* C3: a header declaring more than 15 channels makes mus2midi return NULL at
\* once: nothing has been written to the output and no event has been read.
C3_TooManyChannelsNoResult ==
    (DeclaredChannels > 15 /\ pc # "start") =>
        /\ pc = "null"
        /\ ctx.dst = <<>> /\ ctx.dst_ptr = 0
        /\ event = -1 /\ temp_buffer = <<>> /\ cur = 0

\* NULL returned for a header declaring exactly 16 channels
C3_Witness == pc = "null" /\ DeclaredChannels = 16


\* C4: with a header declaring at most 15 channels the call never returns
\* NULL, whatever the score holds: every pass of the loop moves the score
\* cursor forward, the loop is left for the return once the cursor is at the
\* end, and from the first step on the output begins with "MThd", length 6,
\* format 0, 1 track, division 0x0059 (big-endian) followed by "MTrk".
C4_ValidHeaderTranslates ==
    [][DeclaredChannels <= 15 =>
         /\ pc' \in {"loop", "done"}
         /\ Len(ctx'.dst) >= 18
         /\ SubSeq(ctx'.dst, 1, 18) =
              <<77, 84, 104, 100, 0, 0, 0, 6, 0, 0, 0, 1, 0, 89, 77, 84, 114, 107>>
         /\ (pc = "loop" /\ pc' = "loop" => cur < end /\ cur' > cur)
         /\ (pc = "loop" /\ ~(cur < end) => pc' = "done")]_vars

\* a context returned for a header declaring 15 channels
C4_Witness == pc = "done" /\ DeclaredChannels = 15 /\ event # -1


\* C5: once translation has begun, MUS channel 15 is mapped to MIDI channel 9
\* and none of the MUS channels 0..14 is.
C5_PercussionChannel ==
    pc \in {"loop", "done"} =>
        /\ channelMap[15] = 9
        /\ \A c \in 0..14 : channelMap[c] # 9

\* ten or more melodic channels are in use and an event of channel 15 was the
\* last one translated
C5_Witness ==
    /\ pc = "done" /\ event # -1 /\ event % 16 = 15
    /\ Cardinality({c \in 0..14 : channelMap[c] >= 0}) >= 10

\* C6: the pass that first uses a melodic MUS channel puts delta time, then
\* 0xB0|m 0x07 0x7F for the MIDI channel m it assigns, then a zero delta time,
\* then the event's own two or three bytes; a pass for a channel already
\* assigned puts only delta time and the event's own bytes and leaves the
\* assignment alone; channel 15 is never unassigned.
C6_VolumeInitOnFirstUse ==
    [][PassStep =>
         LET ch    == event' % 16
             first == channelMap[ch] < 0
             dl    == Len(WriteVarLen(delta_time))
             own   == Len(temp_buffer') - dl - (IF first THEN 4 ELSE 0)
         IN  /\ ctx'.dst = ctx.dst \o temp_buffer'
             /\ own \in {2, 3}
             /\ first =>
                  /\ ch # 15
                  /\ channelMap'[ch] \in 0..15
                  /\ SubSeq(temp_buffer', dl + 1, dl + 4) =
                       <<176 + channelMap'[ch], 7, 127, 0>>
                  /\ temp_buffer'[dl + 5] \in {255} \cup
                       {16 * k + channelMap'[ch] : k \in 0..15}
             /\ ~first =>
                  /\ temp_buffer'[dl + 1] \in {255} \cup
                       {16 * k + channelMap[ch] : k \in 0..15}
             /\ \A c \in 0..15 : channelMap[c] >= 0 => channelMap'[c] = channelMap[c]]_vars

\* the second melodic channel has just been used for the first time, by a KeyOn
C6_Witness ==
    /\ pc = "loop" /\ event # -1 /\ event % 16 # 15
    /\ Len(temp_buffer) = 8
    /\ SubSeq(temp_buffer, 2, 6) = <<177, 7, 127, 0, 145>>

\* C7: a KeyOn whose note byte has bit 7 clear is emitted with the volume
\* cached for its channel and changes no cached volume; a KeyOn with bit 7 set
\* stores the byte after the note as its channel's cached volume, emits it, and
\* changes no other channel's; no other event changes a cached volume, every
\* cached volume starts at 64, and two MUS channels never share a cache entry.
C7_KeyOnVolumeCache ==
    [][/\ (pc = "start" /\ pc' = "loop") => \A i \in 0..15 : channel_volume'[i] = 64
       /\ PassStep =>
            LET ch   == event' % 16
                m    == channelMap'[ch]
                note == src[cur + 2]
            IN  /\ \A c \in 0..15 : c # ch => channelMap'[c] # m
                /\ IF (event' \div 16) % 8 # 1
                   THEN channel_volume' = channel_volume
                   ELSE /\ (cur + 1 < Len(src) /\ note < 128) =>
                             /\ temp_buffer'[Len(temp_buffer')] = channel_volume[m]
                             /\ temp_buffer'[Len(temp_buffer') - 1] = note
                             /\ channel_volume' = channel_volume
                        /\ (cur + 2 < Len(src) /\ note >= 128) =>
                             /\ temp_buffer'[Len(temp_buffer')] = src[cur + 3]
                             /\ temp_buffer'[Len(temp_buffer') - 1] = note - 128
                             /\ channel_volume' =
                                  [channel_volume EXCEPT ![m] = src[cur + 3]]]_vars

\* a KeyOn without a volume byte (note 62) emitted with the volume 105 an
\* earlier KeyOn of MUS channel 5 supplied
C7_Witness ==
    /\ pc = "loop" /\ event # -1 /\ (event \div 16) % 8 = 1 /\ event % 16 = 5
    /\ temp_buffer[Len(temp_buffer) - 1] = 62
    /\ temp_buffer[Len(temp_buffer)] = 105


\* the last pass of the loop translated an End-of-score event
LastWasEnd == event # -1 /\ (event \div 16) % 8 = 6

\* the last pass put the meta bytes 0xFF 0x2F 0x00 at the end of the output
EndsWithEndOfTrack ==
    /\ Len(temp_buffer) >= 3
    /\ SubSeq(temp_buffer, Len(temp_buffer) - 2, Len(temp_buffer)) = <<255, 47, 0>>
    /\ ctx.dst_ptr >= 3
    /\ SubSeq(ctx.dst, ctx.dst_ptr - 2, ctx.dst_ptr) = <<255, 47, 0>>

\* C8: once an End-of-score event has been translated the loop is left and no
\* further event is read; so when a score that holds an End-of-score event
\* has been translated, that event was the last one and the finished track
\* ends with 0xFF 0x2F 0x00.
C8_LoopEndsAtEndOfScore ==
    [][/\ (pc = "loop" /\ LastWasEnd) => pc' = "done"
       /\ (pc = "loop" /\ pc' = "done" /\ (LastWasEnd \/ log.eos > 0)) =>
            (LastWasEnd /\ EndsWithEndOfTrack)]_vars

\* C9: an End-of-score event that is the last byte of the score range adds no
\* line to the log; and when the score range stops one byte short of the End
\* event that follows it in the buffer, the finished translation has logged an
\* anomaly and its output ends with 0xFF 0x2F 0x00.
C9_TruncatedScore ==
    [][/\ (PassStep /\ (event' \div 16) % 8 = 6 /\ cur + 1 = end) => log' = log
       /\ (pc = "loop" /\ pc' = "done" /\ header.scoreLen > 0
             /\ end < Len(src) /\ cur = end /\ src[end + 1] = 96) =>
            (log.ctl + log.eos > 0 /\ EndsWithEndOfTrack')]_vars

\* C10: a second call on the same buffer returns the same bytes and the same
\* length as the first; stated for the calls that read no byte past the end
\* of the buffer (the score cursor ends inside it or right behind it).
C10_SameOutputTwice ==
    (call = 2 /\ pc = "done" /\ cur <= Len(src)) =>
        /\ SubSeq(mus_getmididata(ctx), 1, ctx.dstsize) = prev.data
        /\ mus_getmidisize(ctx) = prev.size


\* C11: a ChannelMode event whose table index i lies in the table puts
\* 0xB0|m, midimap[i] and then channels+1 if i = 12 and 0 otherwise (stated for
\* events whose two bytes after the event byte lie inside the buffer).
C11_ChannelModeMono ==
    [][(PassStep /\ (event' \div 16) % 8 = 3 /\ cur + 2 < Len(src)
          /\ src[cur + 2] < 15) =>
         LET n == Len(temp_buffer')
             i == src[cur + 2]
         IN  /\ temp_buffer'[n - 2] = 176 + channelMap'[event' % 16]
             /\ temp_buffer'[n - 1] = midimap[i + 1]
             /\ temp_buffer'[n] = IF i = 12 THEN header.channels + 1 ELSE 0]_vars

\* C12: an event of type 5 or 7 puts no status or data byte into the output:
\* its pass appends the delta time (and the volume-init bytes of a first
\* use) and nothing else.
C12_UnknownEventNoOp ==
    [][(PassStep /\ (event' \div 16) % 8 \in {5, 7}) =>
         /\ Len(temp_buffer') = Len(WriteVarLen(delta_time))
                                  + (IF channelMap[event' % 16] < 0 THEN 4 ELSE 0)
         /\ Len(ctx'.dst) = Len(ctx.dst) + Len(temp_buffer')]_vars

\* C13 as stated: on the first use of a MUS channel the volume-init event
\* stands at delta time 0: the pass's output begins 0x00 0xB0|m 0x07 0x7F.
C13_VolumeInitAtDeltaZero ==
    [][(PassStep /\ channelMap[event' % 16] < 0) =>
         SubSeq(temp_buffer', 1, 4) = <<0, 176 + channelMap'[event' % 16], 7, 127>>]_vars

\* C13 as amended: on the first use of a MUS channel the pass's output is the
\* running delta time, then 0xB0|m 0x07 0x7F, then the delta time 0x00, then
\* the event's own bytes: the volume-init event carries the running delta
\* time and the real event follows it at delta time 0.
C13_VolumeInitCarriesDelta ==
    [][(PassStep /\ channelMap[event' % 16] < 0) =>
         LET dl == Len(WriteVarLen(delta_time))
         IN  /\ SubSeq(temp_buffer', 1, dl) = WriteVarLen(delta_time)
             /\ SubSeq(temp_buffer', dl + 1, dl + 3) =
                  <<176 + channelMap'[event' % 16], 7, 127>>
             /\ temp_buffer'[dl + 4] = 0
             /\ Len(temp_buffer') - (dl + 4) \in {2, 3}
             /\ temp_buffer'[dl + 5] \in {255} \cup
                  {16 * k + channelMap'[event' % 16] : k \in 0..15}]_vars

\* a first use after a MUS delay of 5 ticks: 0x05, volume-init, 0x00, KeyOff
C13_Witness ==
    /\ pc = "loop" /\ event # -1
    /\ Len(temp_buffer) = 8
    /\ SubSeq(temp_buffer, 1, 5) = <<5, 177, 7, 127, 0>>
    /\ temp_buffer[6] = 129

\* the MIDI channel of the k-th melodic MUS channel to appear, k from 0
Slot(k) == IF k < 9 THEN k ELSE k + 1

\* the melodic MUS channels that have a MIDI channel
Assigned(map) == {c \in 0..14 : map[c] >= 0}

\* C14: the k-th distinct melodic MUS channel to appear gets MIDI channel k if
\* k < 9 and k + 1 otherwise; an assignment never changes, two MUS channels
\* never share a MIDI channel and every assigned value lies in 0..15.
C14_AllocationOrder ==
    [][PassStep =>
         LET ch == event' % 16
             k  == Cardinality(Assigned(channelMap))
         IN  /\ channelMap[ch] < 0 =>
                  /\ channelMap'[ch] = Slot(k)
                  /\ Assigned(channelMap') = Assigned(channelMap) \cup {ch}
             /\ channelMap[ch] >= 0 => Assigned(channelMap') = Assigned(channelMap)
             /\ \A c \in 0..15 : channelMap[c] >= 0 => channelMap'[c] = channelMap[c]
             /\ \A c \in 0..15 : channelMap'[c] \in -1..15
             /\ \A c1, c2 \in Assigned(channelMap') \cup {15} :
                  c1 # c2 => channelMap'[c1] # channelMap'[c2]]_vars

\* all fifteen melodic channels are in use, the last of them on MIDI channel 15
C14_Witness ==
    /\ pc = "loop"
    /\ Cardinality(Assigned(channelMap)) = 15
    /\ \E c \in 0..14 : channelMap[c] = 15


\* the operand bytes the switch consumes after event byte ev whose first
\* operand is b
OperandBytes(ev, b) ==
    LET ty == (ev \div 16) % 8
    IN  IF ty \in {0, 2} THEN 1
        ELSE IF ty = 1 THEN (IF b >= 128 THEN 2 ELSE 1)
        ELSE IF ty \in {3, 4} THEN 2
        ELSE 0

\* the MUS delay that starts at offset p of src: the bytes up to the first
\* one with bit 7 clear (<<>> when that byte is not inside src)
RECURSIVE DelayRun(_)
DelayRun(p) ==
    IF p >= Len(src) THEN <<>>
    ELSE IF src[p + 1] < 128 THEN <<src[p + 1]>>
    ELSE LET rest == DelayRun(p + 1)
         IN  IF rest = <<>> THEN <<>> ELSE <<src[p + 1]>> \o rest

\* the same quantity without its leading zero groups
RECURSIVE Canonical(_)
Canonical(bs) == IF Len(bs) > 1 /\ Head(bs) = 128 THEN Canonical(Tail(bs)) ELSE bs

\* the first variable-length quantity of a byte sequence
RECURSIVE VlqPrefix(_)
VlqPrefix(bs) ==
    IF bs = <<>> THEN <<>>
    ELSE IF Head(bs) < 128 THEN <<Head(bs)>>
    ELSE <<Head(bs)>> \o VlqPrefix(Tail(bs))

\* C15: the delta time a pass emits is the pending accumulator, which is 0
\* for the first event and after an event whose byte had bit 7 clear, and
\* otherwise the MUS delay that followed the preceding event (stated for
\* events whose operand and delay bytes lie inside the buffer; a delay and the delta time that
\* renders it are the same quantity when their 7-bit groups agree); the
\* accumulator is set afresh by every pass.
C15_DeltaTimeIsMusDelay ==
    [][PassStep =>
         LET p   == cur + 1 + OperandBytes(event', Byte(<<>>, cur + 1))
             run == DelayRun(p)
         IN  /\ VlqPrefix(temp_buffer') = WriteVarLen(delta_time)
             /\ event = -1 => temp_buffer'[1] = 0
             /\ (event' < 128 /\ p <= Len(src)) => delta_time' = 0 /\ cur' = p
             /\ (event' >= 128 /\ p <= Len(src) /\ run # <<>>) =>
                  /\ cur' = p + Len(run)
                  /\ WriteVarLen(delta_time') = Canonical(run)]_vars

\* a standard reader of a variable-length quantity
RECURSIVE VlqRead(_, _)
VlqRead(bs, acc) ==
    IF bs = <<>> THEN acc
    ELSE IF Head(bs) < 128 THEN acc * 128 + Head(bs)
    ELSE VlqRead(Tail(bs), acc * 128 + (Head(bs) - 128))

\* the number of 7-bit groups a value needs
Groups(v) == IF v < 128 THEN 1 ELSE IF v < 16384 THEN 2 ELSE IF v < 2097152 THEN 3 ELSE 4

\* C16: for a value in 0..2^28-1 WriteVarLen writes the standard
\* variable-length quantity: as many bytes as the value has 7-bit groups
\* (1..4), most significant group first, bit 7 set on every byte but the
\* last, 0 as the single byte 0x00, the returned count equal to the number
\* of bytes, and a standard reader gets the value back.
C16_WriteVarLenStandard ==
    pc = "varlen_done" =>
        LET n == Len(temp_buffer)
        IN  /\ n \in 1..4 /\ n = Groups(delta_time)
            /\ \A i \in 1..(n - 1) : temp_buffer[i] \in 128..255
            /\ temp_buffer[n] \in 0..127
            /\ delta_time = 0 => temp_buffer = <<0>>
            /\ cur = n
            /\ VlqRead(temp_buffer, 0) = delta_time
            /\ \A i \in 1..n :
                 temp_buffer[i] % 128 = (delta_time \div (128 ^ (n - i))) % 128

\* the largest value, four bytes
C16_Witness ==
    /\ pc = "varlen_done"
    /\ delta_time = 268435455
    /\ temp_buffer = <<255, 255, 255, 127>>
    /\ cur = 4


\* C17: every entry of channel_volume lies in 0..127, and so does the third
\* byte of every KeyOn emitted (stated for runs whose reads stayed inside the
\* caller's buffer).
C17_VolumeCacheRange ==
    (pc \in {"loop", "done"} /\ cur <= Len(src)) =>
        /\ \A i \in 0..15 : channel_volume[i] \in 0..127
        /\ (event # -1 /\ (event \div 16) % 8 = 1) =>
             temp_buffer[Len(temp_buffer)] \in 0..127

\* C18: every byte written lies inside the allocation: no copy takes more
\* than the remaining capacity (the counter never goes below 0), the write
\* cursor plus the remaining-capacity counter never exceeds the allocated
\* size, and the scratch area never holds more than its 32 bytes (stated for
\* runs whose reads stayed inside the caller's buffer).
C18_WritesInsideBuffer ==
    (pc \in {"loop", "done"} /\ cur <= Len(src)) =>
        /\ ctx.dstrem >= 0
        /\ Len(ctx.dst) <= ctx.cap
        /\ ctx.dst_ptr <= ctx.cap
        /\ ctx.dst_ptr + ctx.dstrem <= ctx.cap
        /\ Len(temp_buffer) <= SizeofTempBuffer

\* C19: a pass moves the score cursor forward and reads no byte outside
\* [scoreStart, scoreStart + scoreLen): the pass starts at or after scoreStart
\* and the cursor, which has passed every byte read, is not beyond end.
C19_ReadsInsideScore ==
    [][PassStep =>
         /\ cur' > cur
         /\ cur >= header.scoreStart
         /\ cur' <= end]_vars

====
